---- MODULE Spec2Model ----
(***************************************************************************)
(* Model of the Spine atlas tools: the sidecar parser and serializer of    *)
(* atlas_parser.py, the region extractor, guillotine packer and            *)
(* combined-atlas writer of atlas_splitter.py, and process_animation of    *)
(* spine_unpacker.py, which opens and closes the page bitmaps.             *)
(*                                                                         *)
(* A Python str is modelled as a sequence of one-character strings, so     *)
(* that strip, split, startswith, int() and the f-string formatting of the *)
(* writers are computed character by character.  A Python list index i     *)
(* is modelled 1-based (Python i = model i - 1).                           *)
(***************************************************************************)
EXTENDS Integers, Sequences, FiniteSets, TLC

(* ------------------------------------------------------------------ *)
(* Bounds of the model                                                 *)
(* ------------------------------------------------------------------ *)
MaxBlocks == 3      \* a parsed text is made of at most this many blocks
MaxDim == 3         \* packed regions are at most MaxDim x MaxDim pixels
MaxRegions == 3     \* regions of a packing run
MaxPages == 2       \* pages of the model handed to process_animation

(* ------------------------------------------------------------------ *)
(* Python str operations                                               *)
(* ------------------------------------------------------------------ *)
DigitChars == <<"0", "1", "2", "3", "4", "5", "6", "7", "8", "9">>
UpperChars == <<"A", "B", "C", "D", "E", "F", "G", "H", "I", "J", "K", "L", "M",
                "N", "O", "P", "Q", "R", "S", "T", "U", "V", "W", "X", "Y", "Z">>
LowerChars == <<"a", "b", "c", "d", "e", "f", "g", "h", "i", "j", "k", "l", "m",
                "n", "o", "p", "q", "r", "s", "t", "u", "v", "w", "x", "y", "z">>

IsSpace(c) == c \in {" ", "\t"}
IsDigit(c) == \E d \in 1..10 : DigitChars[d] = c

RECURSIVE LStrip(_)
LStrip(s) == IF s # <<>> /\ IsSpace(Head(s)) THEN LStrip(Tail(s)) ELSE s

RECURSIVE RStrip(_)
RStrip(s) == IF s # <<>> /\ IsSpace(s[Len(s)])
             THEN RStrip(SubSeq(s, 1, Len(s) - 1)) ELSE s

Strip(s) == RStrip(LStrip(s))

StartsWith(s, p) == Len(s) >= Len(p) /\ SubSeq(s, 1, Len(p)) = p
EndsWith(s, p) == Len(s) >= Len(p) /\ SubSeq(s, Len(s) - Len(p) + 1, Len(s)) = p
Contains(s, c) == \E n \in 1..Len(s) : s[n] = c
IndexOf(s, c) == CHOOSE n \in 1..Len(s) : s[n] = c /\ \A m \in 1..(n - 1) : s[m] # c

\* s.split(c, 1) for an s that contains c
SplitOnce(s, c) == <<SubSeq(s, 1, IndexOf(s, c) - 1), SubSeq(s, IndexOf(s, c) + 1, Len(s))>>

\* s.split(c)
RECURSIVE StrSplit(_, _)
StrSplit(s, c) == IF ~Contains(s, c) THEN <<s>>
               ELSE <<SubSeq(s, 1, IndexOf(s, c) - 1)>>
                    \o StrSplit(SubSeq(s, IndexOf(s, c) + 1, Len(s)), c)

\* s.replace(c, '')
Remove(s, c) == SelectSeq(s, LAMBDA ch : ch # c)

LowerChar(c) == IF \E n \in 1..26 : UpperChars[n] = c
                THEN LowerChars[CHOOSE n \in 1..26 : UpperChars[n] = c] ELSE c
Lower(s) == [n \in 1..Len(s) |-> LowerChar(s[n])]

\* int(s): optional surrounding whitespace, optional sign, decimal digits
IntBody(s) == IF Strip(s) # <<>> /\ Head(Strip(s)) \in {"+", "-"}
              THEN Tail(Strip(s)) ELSE Strip(s)
IsInt(s) == IntBody(s) # <<>> /\ \A n \in 1..Len(IntBody(s)) : IsDigit(IntBody(s)[n])
DigitVal(c) == (CHOOSE d \in 1..10 : DigitChars[d] = c) - 1
RECURSIVE NatVal(_)
NatVal(s) == IF s = <<>> THEN 0
             ELSE 10 * NatVal(SubSeq(s, 1, Len(s) - 1)) + DigitVal(s[Len(s)])
IntVal(s) == IF Head(Strip(s)) = "-" THEN 0 - NatVal(IntBody(s)) ELSE NatVal(IntBody(s))

\* str(n) / f"{n}"
RECURSIVE NatStr(_)
NatStr(n) == IF n < 10 THEN <<DigitChars[n + 1]>>
             ELSE NatStr(n \div 10) \o <<DigitChars[(n % 10) + 1]>>
IntStr(n) == IF n < 0 THEN <<"-">> \o NatStr(0 - n) ELSE NatStr(n)
BoolStr(b) == IF b THEN <<"t", "r", "u", "e">> ELSE <<"f", "a", "l", "s", "e">>

\* x, y = map(int, value.replace(' ', '').split(','))
PairParts(value) == StrSplit(Remove(value, " "), ",")
IsPair(value) == /\ Len(PairParts(value)) = 2
                 /\ IsInt(PairParts(value)[1])
                 /\ IsInt(PairParts(value)[2])
PairVal(value) == <<IntVal(PairParts(value)[1]), IntVal(PairParts(value)[2])>>

\* f.readlines() with the trailing newline of each line removed
ReadLines(text) == LET parts == StrSplit(text, "\n")
                   IN IF parts[Len(parts)] = <<>>
                      THEN SubSeq(parts, 1, Len(parts) - 1) ELSE parts

RECURSIVE Concat(_)
Concat(ss) == IF ss = <<>> THEN <<>> ELSE Head(ss) \o Concat(Tail(ss))

\* the text of a file made of the given lines
FileOf(ls) == Concat([n \in 1..Len(ls) |-> ls[n] \o <<"\n">>])

(* ------------------------------------------------------------------ *)
(* Literals of the sidecar format                                      *)
(* ------------------------------------------------------------------ *)
PNG == <<".", "p", "n", "g">>
K_size == <<"s", "i", "z", "e">>
K_format == <<"f", "o", "r", "m", "a", "t">>
K_filter == <<"f", "i", "l", "t", "e", "r">>
K_repeat == <<"r", "e", "p", "e", "a", "t">>
K_rotate == <<"r", "o", "t", "a", "t", "e">>
K_xy == <<"x", "y">>
K_orig == <<"o", "r", "i", "g">>
K_offset == <<"o", "f", "f", "s", "e", "t">>
K_index == <<"i", "n", "d", "e", "x">>
V_true == <<"t", "r", "u", "e">>
V_RGBA == <<"R", "G", "B", "A", "8", "8", "8", "8">>
V_Linear == <<"L", "i", "n", "e", "a", "r">>
V_none == <<"n", "o", "n", "e">>
None == <<>>

(* ------------------------------------------------------------------ *)
(* atlas_parser.py: the Page/Region model                              *)
(* ------------------------------------------------------------------ *)
AtlasRegion(name) == [name |-> name, xy |-> <<0, 0>>, size |-> <<0, 0>>,
                      orig |-> <<0, 0>>, offset |-> <<0, 0>>,
                      rotate |-> FALSE, index |-> -1]

AtlasPage(name) == [name |-> name, size |-> None, format |-> <<>>,
                    filter |-> << <<>>, <<>> >>, repeat |-> <<>>,
                    regions |-> <<>>]

\* AtlasParser.__init__ together with the locals of parse_file
AtlasParser == [pages |-> <<>>, current_page |-> 0, lines |-> <<>>, i |-> 1,
                parsing_page_properties |-> FALSE]

(* ------------------------------------------------------------------ *)
(* atlas_parser.py: _parse_page_property                               *)
(* ------------------------------------------------------------------ *)
KeyOf(line) == Strip(SplitOnce(Strip(line), ":")[1])
ValueOf(line) == Strip(SplitOnce(Strip(line), ":")[2])

SetPageProperty(page, key, value) ==
    IF key = K_size
    THEN IF IsPair(value) THEN [page EXCEPT !.size = PairVal(value)] ELSE page
    ELSE IF key = K_format THEN [page EXCEPT !.format = value]
    ELSE IF key = K_filter
    THEN IF Len(StrSplit(value, ",")) = 2
         THEN [page EXCEPT !.filter = <<Strip(StrSplit(value, ",")[1]),
                                        Strip(StrSplit(value, ",")[2])>>]
         ELSE page
    ELSE IF key = K_repeat THEN [page EXCEPT !.repeat = value]
    ELSE page

\* returns the parser after the call; the returned index is the i passed in
ParsePageProperty(p) ==
    IF ~Contains(Strip(p.lines[p.i]), ":") THEN p
    ELSE [p EXCEPT !.pages[p.current_page] =
              SetPageProperty(@, KeyOf(p.lines[p.i]), ValueOf(p.lines[p.i]))]

(* ------------------------------------------------------------------ *)
(* atlas_parser.py: _parse_region_property                             *)
(* ------------------------------------------------------------------ *)
\* a conversion failure that throws away the fields set so far
SetRegionPropertyResetsOnMalformed(region, key, value) ==
    IF key = K_rotate THEN [region EXCEPT !.rotate = (Lower(value) = V_true)]
    ELSE IF key \in {K_xy, K_size, K_orig, K_offset} /\ ~IsPair(value)
    THEN AtlasRegion(region.name)
    ELSE IF key = K_index /\ ~IsInt(value) THEN AtlasRegion(region.name)
    ELSE IF key = K_xy THEN [region EXCEPT !.xy = PairVal(value)]
    ELSE IF key = K_size THEN [region EXCEPT !.size = PairVal(value)]
    ELSE IF key = K_orig THEN [region EXCEPT !.orig = PairVal(value)]
    ELSE IF key = K_offset THEN [region EXCEPT !.offset = PairVal(value)]
    ELSE IF key = K_index THEN [region EXCEPT !.index = IntVal(value)]
    ELSE region

SetRegionProperty(region, key, value) ==
    IF key = K_rotate THEN [region EXCEPT !.rotate = (Lower(value) = V_true)]
    ELSE IF key = K_xy
    THEN IF IsPair(value) THEN [region EXCEPT !.xy = PairVal(value)] ELSE region
    ELSE IF key = K_size
    THEN IF IsPair(value) THEN [region EXCEPT !.size = PairVal(value)] ELSE region
    ELSE IF key = K_orig
    THEN IF IsPair(value) THEN [region EXCEPT !.orig = PairVal(value)] ELSE region
    ELSE IF key = K_offset
    THEN IF IsPair(value) THEN [region EXCEPT !.offset = PairVal(value)] ELSE region
    ELSE IF key = K_index
    THEN IF IsInt(value) THEN [region EXCEPT !.index = IntVal(value)] ELSE region
    ELSE region

\* the look-ahead loop: [next_line, region, properties_found] at its exit
RECURSIVE ScanRegion(_, _, _, _)
ScanRegion(lines, next_line, region, properties_found) ==
    IF next_line > Len(lines)
    THEN [next_line |-> next_line, region |-> region,
          properties_found |-> properties_found]
    ELSE IF Strip(lines[next_line]) # <<>> /\ ~StartsWith(lines[next_line], <<" ", " ">>)
    THEN [next_line |-> next_line, region |-> region,
          properties_found |-> properties_found]
    ELSE IF StartsWith(lines[next_line], <<" ", " ">>) /\ Contains(Strip(lines[next_line]), ":")
    THEN ScanRegion(lines, next_line + 1,
                    SetRegionProperty(region, KeyOf(lines[next_line]),
                                      ValueOf(lines[next_line])),
                    TRUE)
    ELSE ScanRegion(lines, next_line + 1, region, properties_found)

\* [parser after the call, returned index]
ParseRegionProperty(p) ==
    IF Contains(Strip(p.lines[p.i]), ":") THEN [parser |-> p, ret |-> p.i]
    ELSE LET scan == ScanRegion(p.lines, p.i + 1, AtlasRegion(Strip(p.lines[p.i])), FALSE)
         IN [parser |-> IF scan.properties_found /\ p.current_page # 0
                        THEN [p EXCEPT !.pages[p.current_page].regions =
                                           Append(@, scan.region)]
                        ELSE p,
             ret |-> scan.next_line - 1]

(* ------------------------------------------------------------------ *)
(* atlas_parser.py: parse_file, one operator per branch of the loop    *)
(* ------------------------------------------------------------------ *)
IsEmptyLine(p) == Strip(p.lines[p.i]) = <<>>
IsPageLine(p) == ~StartsWith(p.lines[p.i], <<" ">>) /\ EndsWith(Strip(p.lines[p.i]), PNG)
IsPagePropertyLine(p) == p.parsing_page_properties /\ Contains(Strip(p.lines[p.i]), ":")
IsRegionLine(p) == /\ p.current_page # 0
                   /\ ~p.parsing_page_properties
                   /\ ~Contains(Strip(p.lines[p.i]), ":")
                   /\ ~StartsWith(p.lines[p.i], <<" ">>)

ParseEmptyLine(p) == [p EXCEPT !.parsing_page_properties = FALSE, !.i = @ + 1]

ParsePageLine(p) == [p EXCEPT !.pages = Append(@, AtlasPage(Strip(p.lines[p.i]))),
                              !.current_page = Len(p.pages) + 1,
                              !.parsing_page_properties = TRUE,
                              !.i = @ + 1]

ParsePagePropertyLine(p) == [ParsePageProperty(p) EXCEPT !.i = @ + 1]

\* a caller that steps over the line at which the look-ahead stopped
ParseRegionLineSkipsEnd(p) ==
    LET r == ParseRegionProperty(p)
    IN [r.parser EXCEPT !.i = IF r.ret <= p.i THEN p.i + 1 ELSE r.ret + 2]

ParseRegionLine(p) ==
    LET r == ParseRegionProperty(p)
    IN [r.parser EXCEPT !.i = IF r.ret <= p.i THEN p.i + 1 ELSE r.ret + 1]

ParseOtherLine(p) ==
    [p EXCEPT !.parsing_page_properties =
                  IF ~StartsWith(p.lines[p.i], <<" ">>) THEN FALSE ELSE @,
              !.i = @ + 1]

ParseLine(p) == IF IsEmptyLine(p) THEN ParseEmptyLine(p)
                ELSE IF IsPageLine(p) THEN ParsePageLine(p)
                ELSE IF IsPagePropertyLine(p) THEN ParsePagePropertyLine(p)
                ELSE IF IsRegionLine(p) THEN ParseRegionLine(p)
                ELSE ParseOtherLine(p)

RECURSIVE ParseLoop(_)
ParseLoop(p) == IF p.i > Len(p.lines) THEN p ELSE ParseLoop(ParseLine(p))

\* parse_file on a parser object: reads the lines, then runs the loop
OpenFile(p, text) == [p EXCEPT !.lines = ReadLines(text), !.i = 1,
                               !.parsing_page_properties = FALSE]
ParseFile(p, text) == ParseLoop(OpenFile(p, text))

(* ------------------------------------------------------------------ *)
(* atlas_parser.py: save_atlas                                         *)
(* ------------------------------------------------------------------ *)
PropLine(indent, key, value) == indent \o key \o <<":", " ">> \o value \o <<"\n">>
PairStr(a, b) == IntStr(a) \o <<",", " ">> \o IntStr(b)
Ind == <<" ", " ">>

\* a region block written without the blank line in front of it
WriteRegionWithoutBlank(region) ==
    region.name \o <<"\n">>
    \o PropLine(Ind, K_rotate, BoolStr(region.rotate))
    \o PropLine(Ind, K_xy, PairStr(region.xy[1], region.xy[2]))
    \o PropLine(Ind, K_size, PairStr(region.size[1], region.size[2]))
    \o PropLine(Ind, K_orig, PairStr(region.orig[1], region.orig[2]))
    \o PropLine(Ind, K_offset, PairStr(region.offset[1], region.offset[2]))
    \o (IF region.index >= 0 THEN PropLine(Ind, K_index, IntStr(region.index)) ELSE <<>>)

WriteRegion(region) ==
    <<"\n">> \o region.name \o <<"\n">>
    \o PropLine(Ind, K_rotate, BoolStr(region.rotate))
    \o PropLine(Ind, K_xy, PairStr(region.xy[1], region.xy[2]))
    \o PropLine(Ind, K_size, PairStr(region.size[1], region.size[2]))
    \o PropLine(Ind, K_orig, PairStr(region.orig[1], region.orig[2]))
    \o PropLine(Ind, K_offset, PairStr(region.offset[1], region.offset[2]))
    \o (IF region.index >= 0 THEN PropLine(Ind, K_index, IntStr(region.index)) ELSE <<>>)

WritePage(page) ==
    page.name \o <<"\n">>
    \o (IF page.size # None
        THEN PropLine(<<>>, K_size, PairStr(page.size[1], page.size[2])) ELSE <<>>)
    \o (IF page.format # <<>> THEN PropLine(<<>>, K_format, page.format) ELSE <<>>)
    \o (IF page.filter[1] # <<>> /\ page.filter[2] # <<>>
        THEN PropLine(<<>>, K_filter, page.filter[1] \o <<",", " ">> \o page.filter[2])
        ELSE <<>>)
    \o (IF page.repeat # <<>> THEN PropLine(<<>>, K_repeat, page.repeat) ELSE <<>>)
    \o Concat([n \in 1..Len(page.regions) |-> WriteRegion(page.regions[n])])
    \o <<"\n">>

SaveAtlas(pages) == Concat([n \in 1..Len(pages) |-> WritePage(pages[n])])

(* ------------------------------------------------------------------ *)
(* atlas_splitter.py: find_region and extract_region                   *)
(* ------------------------------------------------------------------ *)
padding == 2

Max(a, b) == IF a >= b THEN a ELSE b
Min(a, b) == IF a <= b THEN a ELSE b

RECURSIVE FindInRegions(_, _, _)
FindInRegions(regions, region_name, b) ==
    IF b > Len(regions) THEN 0
    ELSE IF regions[b].name = region_name THEN b
    ELSE FindInRegions(regions, region_name, b + 1)

RECURSIVE FindInPages(_, _, _)
FindInPages(pages, region_name, a) ==
    IF a > Len(pages) THEN <<0, 0>>
    ELSE IF FindInRegions(pages[a].regions, region_name, 1) # 0
    THEN <<a, FindInRegions(pages[a].regions, region_name, 1)>>
    ELSE FindInPages(pages, region_name, a + 1)

\* <<page, region>> as indices into the model, <<0, 0>> for (None, None)
FindRegion(pages, region_name) == FindInPages(pages, region_name, 1)

\* the rectangle passed to crop: (left, upper, right, lower)
CropBox(region, source_image) ==
    LET x == region.xy[1]
        y == region.xy[2]
        width == region.size[1]
        height == region.size[2]
        exceeds == \/ x < 0
                   \/ y < 0
                   \/ x + width > source_image.width
                   \/ y + height > source_image.height
        cx == IF exceeds THEN Max(0, Min(x, source_image.width - 1)) ELSE x
        cy == IF exceeds THEN Max(0, Min(y, source_image.height - 1)) ELSE y
        cw == IF exceeds THEN Min(width, source_image.width - cx) ELSE width
        ch == IF exceeds THEN Min(height, source_image.height - cy) ELSE height
    IN <<cx, cy, cx + cw, cy + ch>>

\* Image.crop raises when the pixel data cannot be decoded (Image.open is
\* lazy) and, in a Pillow that validates the box, when the box is inverted;
\* a Pillow that does not validate returns an empty extent on that axis.
CropRaises(source_image, box, strict_crop) ==
    \/ ~source_image.readable
    \/ strict_crop /\ (box[3] < box[1] \/ box[4] < box[2])

Crop(box) == [width |-> Max(0, box[3] - box[1]), height |-> Max(0, box[4] - box[2])]

\* a rotation that keeps the extent of the bitmap
TransposeKeepsExtent(image) == [width |-> image.width, height |-> image.height]

\* Image.transpose(ROTATE_90)
Transpose(image) == [width |-> image.height, height |-> image.width]

\* a region_data that takes orig from the stored size
RegionDataOrigFromSize(region) ==
    [name |-> region.name, orig |-> region.size, offset |-> region.offset,
     rotate |-> region.rotate, index |-> region.index]

\* region_data
RegionData(region) ==
    [name |-> region.name, orig |-> region.orig, offset |-> region.offset,
     rotate |-> region.rotate, index |-> region.index]

\* exc = "none": (region_image, region_data) is returned;
\* otherwise the exception that leaves extract_region
ExtractRegion(pages, images, strict_crop, region_name) ==
    LET found == FindRegion(pages, region_name)
    IN IF found[1] = 0 \/ found[2] = 0 THEN [exc |-> "ValueError"]
       ELSE LET page == pages[found[1]]
                region == page.regions[found[2]]
                source_image == images[page.name]
                box == CropBox(region, source_image)
            IN IF CropRaises(source_image, box, strict_crop)
               \* the handler builds the placeholder and then reads region_data,
               \* which is bound only after crop and transpose succeeded
               THEN [exc |-> "UnboundLocalError"]
               ELSE [exc |-> "none",
                     image |-> IF region.rotate THEN Transpose(Crop(box)) ELSE Crop(box),
                     data |-> RegionData(region)]

(* ------------------------------------------------------------------ *)
(* atlas_splitter.py: create_combined_atlas                            *)
(* ------------------------------------------------------------------ *)
\* Node.__init__
Node(x, y, width, height) == [x |-> x, y |-> y, width |-> width, height |-> height,
                              used |-> FALSE, right |-> 0, down |-> 0]

\* Node.find_node on the node nodes[id]; 0 for None
RECURSIVE FindNode(_, _, _, _)
FindNode(nodes, id, width, height) ==
    IF nodes[id].used
    THEN IF FindNode(nodes, nodes[id].right, width, height) # 0
         THEN FindNode(nodes, nodes[id].right, width, height)
         ELSE FindNode(nodes, nodes[id].down, width, height)
    ELSE IF width <= nodes[id].width /\ height <= nodes[id].height THEN id
    ELSE IF height <= nodes[id].width /\ width <= nodes[id].height THEN id
    ELSE 0

\* a split that leaves no padding between a region and its neighbours
SplitNodeWithoutPadding(nodes, id, width, height) ==
    [nodes EXCEPT ![id].used = TRUE,
                  ![id].down = Len(nodes) + 1,
                  ![id].right = Len(nodes) + 2]
    \o << Node(nodes[id].x, nodes[id].y + height,
               nodes[id].width, nodes[id].height - height),
          Node(nodes[id].x + width, nodes[id].y,
               nodes[id].width - width, height) >>

\* Node.split on the node nodes[id]: the two children are appended to the arena
SplitNode(nodes, id, width, height) ==
    [nodes EXCEPT ![id].used = TRUE,
                  ![id].down = Len(nodes) + 1,
                  ![id].right = Len(nodes) + 2]
    \o << Node(nodes[id].x, nodes[id].y + height + padding,
               nodes[id].width, nodes[id].height - height - padding),
          Node(nodes[id].x + width + padding, nodes[id].y,
               nodes[id].width - width - padding, height) >>

\* the locals of create_combined_atlas at its entry
Frame(region_names) ==
    [at |-> "extract", exc |-> "none", region_names |-> region_names, n |-> 1,
     regions |-> <<>>, max_width |-> 0, max_height |-> 0, total_area |-> 0,
     atlas_width |-> 0, atlas_height |-> 0, nodes |-> <<>>, k |-> 1,
     region_positions |-> <<>>, unplaced |-> <<>>,
     combined_image |-> [width |-> 0, height |-> 0]]

\* a first pass that lets the ValueError of a missing name end the call
ExtractOneAbortsOnMissing(f, pages, images, strict_crop) ==
    LET r == ExtractRegion(pages, images, strict_crop, f.region_names[f.n])
    IN IF r.exc = "none"
       THEN [f EXCEPT !.regions = Append(@, [image |-> r.image, data |-> r.data]),
                      !.max_width = Max(@, r.image.width),
                      !.max_height = Max(@, r.image.height),
                      !.total_area = @ + (r.image.width + padding) * (r.image.height + padding),
                      !.n = @ + 1]
       ELSE [f EXCEPT !.at = "raised", !.exc = r.exc]

\* first pass, one iteration
ExtractOne(f, pages, images, strict_crop) ==
    LET r == ExtractRegion(pages, images, strict_crop, f.region_names[f.n])
    IN IF r.exc = "none"
       THEN [f EXCEPT !.regions = Append(@, [image |-> r.image, data |-> r.data]),
                      !.max_width = Max(@, r.image.width),
                      !.max_height = Max(@, r.image.height),
                      !.total_area = @ + (r.image.width + padding) * (r.image.height + padding),
                      !.n = @ + 1]
       ELSE IF r.exc = "ValueError" THEN [f EXCEPT !.n = @ + 1]
       ELSE [f EXCEPT !.at = "raised", !.exc = r.exc]

\* a sort key without the tie-break on the larger dimension
SortKeyAreaOnly(item) == <<item.image.width * item.image.height, 0>>

\* regions.sort(key=(area, max dimension), reverse=True): stable, descending
SortKey(item) == <<item.image.width * item.image.height,
                   Max(item.image.width, item.image.height)>>
KeyLess(a, b) == a[1] < b[1] \/ (a[1] = b[1] /\ a[2] < b[2])

RECURSIVE InsertSorted(_, _)
InsertSorted(sorted, item) ==
    IF sorted = <<>> THEN <<item>>
    ELSE IF KeyLess(SortKey(Head(sorted)), SortKey(item)) THEN <<item>> \o sorted
    ELSE <<Head(sorted)>> \o InsertSorted(Tail(sorted), item)

RECURSIVE SortRegions(_)
SortRegions(regions) ==
    IF regions = <<>> THEN <<>>
    ELSE InsertSorted(SortRegions(SubSeq(regions, 1, Len(regions) - 1)),
                      regions[Len(regions)])

\* int(v ** 0.5)
Isqrt(v) == CHOOSE r \in 0..v : r * r <= v /\ (r + 1) * (r + 1) > v

\* int((total_area * 1.3) ** 0.5)
InitialSize(total_area) == Isqrt((13 * total_area) \div 10)

\* from the end of the first pass to the start of the second
Prepare(f) ==
    IF f.regions = <<>> THEN [f EXCEPT !.at = "raised", !.exc = "ValueError"]
    ELSE LET atlas_width == Max(InitialSize(f.total_area), f.max_width + padding)
             atlas_height == Max(InitialSize(f.total_area), f.max_height + padding)
         IN [f EXCEPT !.at = "pack",
                      !.regions = SortRegions(f.regions),
                      !.atlas_width = atlas_width,
                      !.atlas_height = atlas_height,
                      !.combined_image = [width |-> atlas_width, height |-> atlas_height],
                      !.nodes = <<Node(0, 0, atlas_width, atlas_height)>>]

\* a second pass that gives up at the first item that does not fit
PlaceOneStopsWhenFull(f) ==
    LET item == f.regions[f.k]
        node == FindNode(f.nodes, 1, item.image.width, item.image.height)
    IN IF node # 0
       THEN [f EXCEPT !.region_positions =
                          Append(@, [name |-> item.data.name,
                                     x |-> f.nodes[node].x,
                                     y |-> f.nodes[node].y,
                                     width |-> item.image.width,
                                     height |-> item.image.height,
                                     orig |-> item.data.orig,
                                     offset |-> item.data.offset,
                                     rotate |-> FALSE,
                                     index |-> item.data.index]),
                      !.nodes = SplitNode(@, node, item.image.width, item.image.height),
                      !.k = @ + 1]
       ELSE [f EXCEPT !.unplaced = Append(@, item.data.name),
                      !.k = Len(f.regions) + 1]

\* second pass, one iteration; unplaced collects the names of the warning
\* "Could not fit region ... in atlas"
PlaceOne(f) ==
    LET item == f.regions[f.k]
        direct == FindNode(f.nodes, 1, item.image.width, item.image.height)
        node == IF direct # 0 THEN direct
                ELSE FindNode(f.nodes, 1, item.image.height, item.image.width)
        rotated == direct = 0 /\ node # 0
        region_image == IF rotated THEN Transpose(item.image) ELSE item.image
    IN IF node # 0
       THEN [f EXCEPT !.region_positions =
                          Append(@, [name |-> item.data.name,
                                     x |-> f.nodes[node].x,
                                     y |-> f.nodes[node].y,
                                     width |-> region_image.width,
                                     height |-> region_image.height,
                                     orig |-> item.data.orig,
                                     offset |-> item.data.offset,
                                     rotate |-> rotated,
                                     index |-> item.data.index]),
                      !.nodes = SplitNode(@, node, region_image.width, region_image.height),
                      !.k = @ + 1]
       ELSE [f EXCEPT !.unplaced = Append(@, item.data.name), !.k = @ + 1]

MaxOf(S) == CHOOSE m \in S : \A e \in S : e <= m

\* a trim that crops at the bounding box, without the padding
TrimWithoutPadding(f) ==
    IF f.region_positions # <<>>
    THEN LET max_x == MaxOf({f.region_positions[q].x + f.region_positions[q].width :
                                 q \in 1..Len(f.region_positions)})
             max_y == MaxOf({f.region_positions[q].y + f.region_positions[q].height :
                                 q \in 1..Len(f.region_positions)})
         IN [f EXCEPT !.at = "returned",
                      !.combined_image = [width |-> max_x, height |-> max_y]]
    ELSE [f EXCEPT !.at = "returned"]

\* trim and return
Trim(f) ==
    IF f.region_positions # <<>>
    THEN LET max_x == MaxOf({f.region_positions[q].x + f.region_positions[q].width :
                                 q \in 1..Len(f.region_positions)})
             max_y == MaxOf({f.region_positions[q].y + f.region_positions[q].height :
                                 q \in 1..Len(f.region_positions)})
         IN [f EXCEPT !.at = "returned",
                      !.combined_image = [width |-> max_x + padding,
                                          height |-> max_y + padding]]
    ELSE [f EXCEPT !.at = "returned"]

\* one step of create_combined_atlas
StepFrame(f, pages, images, strict_crop) ==
    IF f.at = "extract"
    THEN IF f.n <= Len(f.region_names) THEN ExtractOne(f, pages, images, strict_crop)
         ELSE Prepare(f)
    ELSE IF f.k <= Len(f.regions) THEN PlaceOne(f) ELSE Trim(f)

RECURSIVE RunFrame(_, _, _, _)
RunFrame(f, pages, images, strict_crop) ==
    IF f.at \in {"returned", "raised"} THEN f
    ELSE RunFrame(StepFrame(f, pages, images, strict_crop), pages, images, strict_crop)

\* the whole call
CreateCombinedAtlas(pages, images, strict_crop, region_names) ==
    RunFrame(Frame(region_names), pages, images, strict_crop)

(* ------------------------------------------------------------------ *)
(* atlas_splitter.py: save_combined_atlas_data                         *)
(* ------------------------------------------------------------------ *)
\* region_map = {pos['name']: pos ...}: the last record of a name wins; 0 if absent
RECURSIVE RegionMap(_, _, _)
RegionMap(region_positions, name, q) ==
    IF q = 0 THEN 0
    ELSE IF region_positions[q].name = name THEN q
    ELSE RegionMap(region_positions, name, q - 1)

\* a writer that ignores the placement list
WriteCombinedRegionFromSource(region, region_positions) ==
    region.name \o <<"\n">>
    \o PropLine(Ind, K_rotate, BoolStr(region.rotate))
    \o PropLine(Ind, K_xy, PairStr(region.xy[1], region.xy[2]))
    \o PropLine(Ind, K_size, PairStr(region.size[1], region.size[2]))
    \o PropLine(Ind, K_orig, PairStr(region.orig[1], region.orig[2]))
    \o PropLine(Ind, K_offset, PairStr(region.offset[1], region.offset[2]))
    \o PropLine(Ind, K_index, IntStr(region.index))

WriteCombinedRegion(region, region_positions) ==
    LET q == RegionMap(region_positions, region.name, Len(region_positions))
        pos == region_positions[q]
    IN region.name \o <<"\n">>
       \o (IF q # 0
           THEN PropLine(Ind, K_rotate, BoolStr(pos.rotate))
                \o PropLine(Ind, K_xy, PairStr(pos.x, pos.y))
                \o PropLine(Ind, K_size, PairStr(pos.width, pos.height))
                \o PropLine(Ind, K_orig, PairStr(pos.orig[1], pos.orig[2]))
                \o PropLine(Ind, K_offset, PairStr(pos.offset[1], pos.offset[2]))
                \o PropLine(Ind, K_index, IntStr(pos.index))
           ELSE PropLine(Ind, K_rotate, BoolStr(region.rotate))
                \o PropLine(Ind, K_xy, PairStr(region.xy[1], region.xy[2]))
                \o PropLine(Ind, K_size, PairStr(region.size[1], region.size[2]))
                \o PropLine(Ind, K_orig, PairStr(region.orig[1], region.orig[2]))
                \o PropLine(Ind, K_offset, PairStr(region.offset[1], region.offset[2]))
                \o PropLine(Ind, K_index, IntStr(region.index)))

SaveCombinedAtlasData(pages, image_name, img, region_positions) ==
    image_name \o <<"\n">>
    \o PropLine(<<>>, K_size, IntStr(img.width) \o <<",">> \o IntStr(img.height))
    \o PropLine(<<>>, K_format, V_RGBA)
    \o PropLine(<<>>, K_filter, V_Linear \o <<",">> \o V_Linear)
    \o PropLine(<<>>, K_repeat, V_none)
    \o Concat([a \in 1..Len(pages) |->
                  Concat([b \in 1..Len(pages[a].regions) |->
                             WriteCombinedRegion(pages[a].regions[b], region_positions)])])

(* ------------------------------------------------------------------ *)
(* Inputs: sidecar texts                                               *)
(* ------------------------------------------------------------------ *)
\* a page header with its properties
BlockPage ==
    << <<"p", ".", "p", "n", "g">>,
       <<"s", "i", "z", "e", ":", " ", "8", ",", "8">>,
       <<"f", "o", "r", "m", "a", "t", ":", " ", "R", "G", "B", "A", "8", "8", "8", "8">>,
       <<"f", "i", "l", "t", "e", "r", ":", " ", "L", "i", "n", "e", "a", "r", ",", "L", "i", "n", "e", "a", "r">>,
       <<"r", "e", "p", "e", "a", "t", ":", " ", "n", "o", "n", "e">> >>

\* a page header without properties
BlockPageBare ==
    << <<"q", ".", "p", "n", "g">> >>

\* a blank separator line
BlockBlank ==
    << <<>> >>

\* a region with every property
BlockRegionFull ==
    << <<"a">>,
       <<" ", " ", "r", "o", "t", "a", "t", "e", ":", " ", "t", "r", "u", "e">>,
       <<" ", " ", "x", "y", ":", " ", "2", ",", " ", "1">>,
       <<" ", " ", "s", "i", "z", "e", ":", " ", "3", ",", " ", "2">>,
       <<" ", " ", "o", "r", "i", "g", ":", " ", "4", ",", " ", "4">>,
       <<" ", " ", "o", "f", "f", "s", "e", "t", ":", " ", "1", ",", " ", "0">>,
       <<" ", " ", "i", "n", "d", "e", "x", ":", " ", "1">> >>

\* a region without orig, offset and index
BlockRegionShort ==
    << <<"b">>,
       <<" ", " ", "r", "o", "t", "a", "t", "e", ":", " ", "f", "a", "l", "s", "e">>,
       <<" ", " ", "x", "y", ":", " ", "0", ",", " ", "0">>,
       <<" ", " ", "s", "i", "z", "e", ":", " ", "2", ",", " ", "2">> >>

\* a region with an index below -1
BlockRegionNegIndex ==
    << <<"c">>,
       <<" ", " ", "x", "y", ":", " ", "1", ",", "1">>,
       <<" ", " ", "s", "i", "z", "e", ":", " ", "1", ",", " ", "2">>,
       <<" ", " ", "i", "n", "d", "e", "x", ":", " ", "-", "2">> >>

\* a region with malformed values for xy and index
BlockRegionBadValue ==
    << <<"d">>,
       <<" ", " ", "x", "y", ":", " ", "1", ";", "2">>,
       <<" ", " ", "s", "i", "z", "e", ":", " ", "2", ",", " ", "1">>,
       <<" ", " ", "i", "n", "d", "e", "x", ":", " ", "x">> >>

\* a region whose only property has an unknown key
BlockRegionUnknown ==
    << <<"e">>,
       <<" ", " ", "f", "o", "o", ":", " ", "1">> >>

\* a region name without any property line
BlockRegionBare ==
    << <<"f">> >>

WellFormedBlocks == {BlockPage, BlockPageBare, BlockBlank, BlockRegionFull,
                     BlockRegionShort, BlockRegionNegIndex}
Blocks == WellFormedBlocks \cup {BlockRegionBadValue, BlockRegionUnknown, BlockRegionBare}

BlockSeqs == UNION {[1..m -> Blocks] : m \in 1..MaxBlocks}

\* a page header and a blank line, followed by MaxBlocks - 1 further blocks:
\* texts in which a parsed region block is followed by another block
PagedBlockSeqs == {<<BlockPageBare, BlockBlank>> \o t : t \in [1..(MaxBlocks - 1) -> Blocks]}

(* ------------------------------------------------------------------ *)
(* Inputs: parsed models, page bitmaps and request lists               *)
(* ------------------------------------------------------------------ *)
PageP == <<"p">> \o PNG
PageQ == <<"q">> \o PNG
ImageName == <<"o">> \o PNG
RegionNames == << <<"a">>, <<"b">>, <<"c">>, <<"d">>, <<"e">>, <<"f">> >>
Missing == <<"m", "i", "s", "s", "i", "n", "g">>

Bitmap(width, height, readable) == [width |-> width, height |-> height, readable |-> readable]

\* regions that lie inside their page, one name each
PlainRegion(q, size) == [AtlasRegion(RegionNames[q]) EXCEPT !.size = size, !.orig = size]

\* regions that exercise rotation, clamping, trim metadata and duplicate names
RegionPool ==
    { [name |-> <<"a">>, xy |-> <<0, 0>>, size |-> <<2, 3>>, orig |-> <<2, 3>>,
       offset |-> <<0, 0>>, rotate |-> FALSE, index |-> -1],
      [name |-> <<"b">>, xy |-> <<1, 1>>, size |-> <<3, 1>>, orig |-> <<5, 4>>,
       offset |-> <<1, 2>>, rotate |-> TRUE, index |-> 0],
      [name |-> <<"a">>, xy |-> <<3, 2>>, size |-> <<2, 3>>, orig |-> <<4, 6>>,
       offset |-> <<2, 1>>, rotate |-> FALSE, index |-> 2],
      [name |-> <<"b">>, xy |-> <<-1, 0>>, size |-> <<2, 1>>, orig |-> <<3, 3>>,
       offset |-> <<0, 1>>, rotate |-> TRUE, index |-> 1],
      [name |-> <<"b">>, xy |-> <<0, 0>>, size |-> <<-1, 2>>, orig |-> <<1, 2>>,
       offset |-> <<0, 0>>, rotate |-> FALSE, index |-> -1] }

\* the orders in which a list of names can be handed over
Reordered(names) == {[q \in 1..Len(names) |-> names[f[q]]] : f \in Permutations(1..Len(names))}

RequestNames == {<<"a">>, <<"b">>, Missing}
Requests == UNION {[1..m -> RequestNames] : m \in 1..2}

Parsed(pages) == [AtlasParser EXCEPT !.pages = pages, !.current_page = Len(pages)]

(* ------------------------------------------------------------------ *)
(* State                                                               *)
(* ------------------------------------------------------------------ *)
VARIABLES
    pc,           \* position of the driver
    file,         \* text of the sidecar file on disk
    parser,       \* the AtlasParser (the model) and the frame of its parse_file
    reparsed,     \* pages of a fresh AtlasParser that parsed the written file
    wellformed,   \* the input text is made of well-formed blocks only
    images,       \* AtlasSplitter.images: page name -> opened bitmap
    strict_crop,  \* the installed Pillow rejects an inverted crop box
    frame,        \* the frame of create_combined_atlas
    disk,         \* page name -> bitmap file in the directory of the sidecar
    opened,       \* handles of the bitmaps opened by Image.open and not closed
    proc          \* the frame of process_animation

vars == <<pc, file, parser, reparsed, wellformed, images, strict_crop, frame,
          disk, opened, proc>>
env == <<disk, opened, proc>>

NoImages == [name \in {} |-> Bitmap(0, 0, TRUE)]

\* spine_data reduced to what process_animation reads from it: whether it
\* has skins, whether they have the expected shape, and the region names
\* they refer to, in the iteration order of the set all_regions
SpineData(skins, names) == [skins |-> skins, names |-> names]

\* the locals of process_animation at its entry
Proc(spine_data) == [spine_data |-> spine_data, page |-> 1, all_regions |-> <<>>,
                     exc |-> "none"]
NoProc == Proc(SpineData("absent", <<>>))

(* ------------------------------------------------------------------ *)
(* Parsing a sidecar text, saving the model, parsing it again          *)
(* ------------------------------------------------------------------ *)
InitParse ==
    \E bs \in BlockSeqs \cup PagedBlockSeqs :
        /\ file = FileOf(Concat(bs))
        /\ wellformed = (\A m \in 1..Len(bs) : bs[m] \in WellFormedBlocks)
        /\ pc = "open"
        /\ parser = AtlasParser
        /\ reparsed = <<>>
        /\ images = NoImages
        /\ strict_crop = FALSE
        /\ frame = Frame(<<>>)
        /\ disk = NoImages
        /\ opened = {}
        /\ proc = NoProc

Open ==
    /\ pc = "open"
    /\ parser' = OpenFile(parser, file)
    /\ pc' = "parse"
    /\ UNCHANGED <<env, file, reparsed, wellformed, images, strict_crop, frame>>

InLoop == pc = "parse" /\ parser.i <= Len(parser.lines)

EmptyLine ==
    /\ InLoop
    /\ IsEmptyLine(parser)
    /\ parser' = ParseEmptyLine(parser)
    /\ UNCHANGED <<env, pc, file, reparsed, wellformed, images, strict_crop, frame>>

PageLine ==
    /\ InLoop
    /\ ~IsEmptyLine(parser) /\ IsPageLine(parser)
    /\ parser' = ParsePageLine(parser)
    /\ UNCHANGED <<env, pc, file, reparsed, wellformed, images, strict_crop, frame>>

PagePropertyLine ==
    /\ InLoop
    /\ ~IsEmptyLine(parser) /\ ~IsPageLine(parser) /\ IsPagePropertyLine(parser)
    /\ parser' = ParsePagePropertyLine(parser)
    /\ UNCHANGED <<env, pc, file, reparsed, wellformed, images, strict_crop, frame>>

RegionLine ==
    /\ InLoop
    /\ ~IsEmptyLine(parser) /\ ~IsPageLine(parser) /\ ~IsPagePropertyLine(parser)
    /\ IsRegionLine(parser)
    /\ parser' = ParseRegionLine(parser)
    /\ UNCHANGED <<env, pc, file, reparsed, wellformed, images, strict_crop, frame>>

OtherLine ==
    /\ InLoop
    /\ ~IsEmptyLine(parser) /\ ~IsPageLine(parser) /\ ~IsPagePropertyLine(parser)
    /\ ~IsRegionLine(parser)
    /\ parser' = ParseOtherLine(parser)
    /\ UNCHANGED <<env, pc, file, reparsed, wellformed, images, strict_crop, frame>>

EndOfFile ==
    /\ pc = "parse"
    /\ parser.i > Len(parser.lines)
    /\ pc' = "parsed"
    /\ UNCHANGED <<env, file, parser, reparsed, wellformed, images, strict_crop, frame>>

SaveAtlasFile ==
    /\ pc = "parsed"
    /\ file' = SaveAtlas(parser.pages)
    /\ pc' = "saved"
    /\ UNCHANGED <<env, parser, reparsed, wellformed, images, strict_crop, frame>>

\* a fresh AtlasParser parses the file that was written
Reparse ==
    /\ pc \in {"saved", "written"}
    /\ reparsed' = ParseFile(AtlasParser, file).pages
    /\ pc' = IF pc = "saved" THEN "done" ELSE "reread"
    /\ UNCHANGED <<env, file, parser, wellformed, images, strict_crop, frame>>

NextParse == \/ Open
             \/ EmptyLine
             \/ PageLine
             \/ PagePropertyLine
             \/ RegionLine
             \/ OtherLine
             \/ EndOfFile
             \/ SaveAtlasFile
             \/ Reparse

SpecParse == InitParse /\ [][NextParse]_vars

\* parse_file is straight-line code: while it is being executed (Parsing,
\* the enabling condition of its steps) it goes on taking steps.  This is
\* weak fairness of the steps of parse_file with their enabling condition
\* written out.
Parsing == pc \in {"open", "parse"}
SpecParseFair ==
    /\ InitParse
    /\ [][NextParse]_vars
    /\ ([]<>(~Parsing) \/ []<><<Parsing /\ (pc' # pc \/ parser' # parser)>>_vars)

(* ------------------------------------------------------------------ *)
(* Extracting and packing requested regions, writing the new sidecar   *)
(* ------------------------------------------------------------------ *)
\* 1..MaxRegions regions of sizes up to MaxDim x MaxDim, all requested; each
\* multiset of sizes is taken once, in nondecreasing (width, height) order
SizeRank(size) == size[1] * (MaxDim + 1) + size[2]

InitPacking ==
    \E cnt \in 1..MaxRegions :
        \E sizes \in [1..cnt -> (1..MaxDim) \X (1..MaxDim)] :
            /\ \A q \in 1..(cnt - 1) : SizeRank(sizes[q]) <= SizeRank(sizes[q + 1])
            /\ parser = Parsed(<< [AtlasPage(PageP) EXCEPT
                                     !.regions = [q \in 1..cnt |-> PlainRegion(q, sizes[q])]] >>)
            /\ images = [name \in {PageP} |-> Bitmap(MaxDim, MaxDim, TRUE)]
            /\ strict_crop = TRUE
            /\ frame = Frame([q \in 1..cnt |-> RegionNames[q]])

\* two pages of pooled regions, requests that may name a missing region
InitExtraction ==
    \E rp \in UNION {[1..m -> RegionPool] : m \in 1..2}, rq \in RegionPool,
       readable \in BOOLEAN, strict \in BOOLEAN, names \in Requests :
        /\ parser = Parsed(<< [AtlasPage(PageP) EXCEPT !.regions = rp],
                              [AtlasPage(PageQ) EXCEPT !.regions = <<rq>>] >>)
        /\ images = [name \in {PageP, PageQ} |->
                        IF name = PageP THEN Bitmap(4, 4, TRUE) ELSE Bitmap(4, 4, readable)]
        /\ strict_crop = strict
        /\ frame = Frame(names)

\* the two items 10x10 and 20x5, requested in either order; the second is
\* stored upright or rotated on its page
ExampleRegions ==
    { << [PlainRegion(1, <<10, 10>>) EXCEPT !.xy = <<0, 0>>],
         [PlainRegion(2, <<20, 5>>) EXCEPT !.xy = <<0, 10>>] >>,
      << [PlainRegion(1, <<10, 10>>) EXCEPT !.xy = <<0, 0>>],
         [PlainRegion(2, <<5, 20>>) EXCEPT !.xy = <<10, 0>>, !.rotate = TRUE] >> }

InitExample ==
    \E rs \in ExampleRegions, names \in Reordered(<<RegionNames[1], RegionNames[2]>>) :
        /\ parser = Parsed(<< [AtlasPage(PageP) EXCEPT !.regions = rs] >>)
        /\ images = [name \in {PageP} |-> Bitmap(32, 32, TRUE)]
        /\ strict_crop = TRUE
        /\ frame = Frame(names)

\* two or three regions of sizes up to 5x5, for which the canvas estimate
\* can be too small to hold every item
TightSizes == {<<1, 1>>, <<3, 3>>, <<4, 4>>, <<5, 5>>}

InitTight ==
    \E cnt \in 2..3 :
        \E sizes \in [1..cnt -> TightSizes] :
            /\ \A q \in 1..(cnt - 1) : sizes[q][1] <= sizes[q + 1][1]
            /\ parser = Parsed(<< [AtlasPage(PageP) EXCEPT
                                     !.regions = [q \in 1..cnt |-> PlainRegion(q, sizes[q])]] >>)
            /\ images = [name \in {PageP} |-> Bitmap(5, 5, TRUE)]
            /\ strict_crop = TRUE
            /\ frame = Frame([q \in 1..cnt |-> RegionNames[q]])

InitSplit ==
    /\ InitPacking \/ InitExtraction \/ InitExample \/ InitTight
    /\ pc = "pack"
    /\ file = <<>>
    /\ reparsed = <<>>
    /\ wellformed = TRUE
    /\ disk = NoImages
    /\ opened = {}
    /\ proc = NoProc

Running == pc = "pack" /\ frame.at \in {"extract", "pack"}

ExtractRegionStep ==
    /\ Running
    /\ frame.at = "extract" /\ frame.n <= Len(frame.region_names)
    /\ frame' = ExtractOne(frame, parser.pages, images, strict_crop)
    /\ UNCHANGED <<env, pc, file, parser, reparsed, wellformed, images, strict_crop>>

PrepareAtlas ==
    /\ Running
    /\ frame.at = "extract" /\ frame.n > Len(frame.region_names)
    /\ frame' = Prepare(frame)
    /\ UNCHANGED <<env, pc, file, parser, reparsed, wellformed, images, strict_crop>>

PlaceRegion ==
    /\ Running
    /\ frame.at = "pack" /\ frame.k <= Len(frame.regions)
    /\ frame' = PlaceOne(frame)
    /\ UNCHANGED <<env, pc, file, parser, reparsed, wellformed, images, strict_crop>>

TrimAtlas ==
    /\ Running
    /\ frame.at = "pack" /\ frame.k > Len(frame.regions)
    /\ frame' = Trim(frame)
    /\ UNCHANGED <<env, pc, file, parser, reparsed, wellformed, images, strict_crop>>

WriteCombined ==
    /\ pc = "pack"
    /\ frame.at = "returned"
    /\ file' = SaveCombinedAtlasData(parser.pages, ImageName, frame.combined_image,
                                     frame.region_positions)
    /\ pc' = "written"
    /\ UNCHANGED <<env, parser, reparsed, wellformed, images, strict_crop, frame>>

NextSplit == \/ ExtractRegionStep
             \/ PrepareAtlas
             \/ PlaceRegion
             \/ TrimAtlas
             \/ WriteCombined
             \/ Reparse

SpecSplit == InitSplit /\ [][NextSplit]_vars

(* ------------------------------------------------------------------ *)
(* spine_unpacker.py: process_animation                                *)
(* ------------------------------------------------------------------ *)
\* Image.open: the bitmap on disk with the identity of the opened object
OpenImage(bitmap, handle) == [width |-> bitmap.width, height |-> bitmap.height,
                              readable |-> bitmap.readable, handle |-> handle]

\* self.images[page.name] = image
Store(imgs, name, image) ==
    [key \in DOMAIN imgs \cup {name} |-> IF key = name THEN image ELSE imgs[key]]

\* the objects that close() reaches: the values of self.images
Reachable(imgs) == {imgs[name].handle : name \in DOMAIN imgs}

\* the model, the bitmaps on disk and the skins handed to process_animation
ProcessRegions == {r \in RegionPool : r.xy \in {<<0, 0>>, <<1, 1>>} /\ r.size[1] > 0}
PageNames == {PageP, PageQ}
SkinNames == {names \in UNION {[1..m -> RequestNames] : m \in 0..2} :
                 \A a, b \in 1..Len(names) : a # b => names[a] # names[b]}
SpineDatas == {SpineData("absent", <<>>), SpineData("malformed", <<>>)}
              \cup {SpineData("ok", names) : names \in SkinNames}

InitProcess ==
    \E cnt \in 1..MaxPages :
        \E names \in [1..cnt -> PageNames], rs \in [1..cnt -> ProcessRegions],
           present \in SUBSET PageNames, strict \in BOOLEAN, sd \in SpineDatas :
            /\ parser = Parsed([q \in 1..cnt |->
                                   [AtlasPage(names[q]) EXCEPT !.regions = <<rs[q]>>]])
            /\ disk = [name \in present |-> Bitmap(4, 4, TRUE)]
            /\ strict_crop = strict
            /\ proc = Proc(sd)
            /\ images = NoImages
            /\ opened = {}
            /\ frame = Frame(<<>>)
            /\ pc = "load"
            /\ file = <<>>
            /\ reparsed = <<>>
            /\ wellformed = TRUE

\* load_page_images, one iteration: a page without a bitmap file raises
\* FileNotFoundError, which leaves process_animation before its try block
LoadPageImage ==
    /\ pc = "load"
    /\ proc.page <= Len(parser.pages)
    /\ LET page == parser.pages[proc.page]
       IN IF page.name \notin DOMAIN disk
          THEN /\ proc' = [proc EXCEPT !.exc = "FileNotFoundError"]
               /\ pc' = "ended"
               /\ images' = images
               /\ opened' = opened
          ELSE /\ images' = Store(images, page.name, OpenImage(disk[page.name], proc.page))
               /\ opened' = opened \cup {proc.page}
               /\ proc' = [proc EXCEPT !.page = @ + 1]
               /\ pc' = pc
    /\ file' = file /\ parser' = parser /\ reparsed' = reparsed /\ wellformed' = wellformed
    /\ strict_crop' = strict_crop /\ frame' = frame /\ disk' = disk

\* the try block up to the emptiness test of all_regions
CollectRegions ==
    /\ pc = "load"
    /\ proc.page > Len(parser.pages)
    /\ IF proc.spine_data.skins = "absent"
       THEN pc' = "finally" /\ proc' = proc
       ELSE IF proc.spine_data.skins = "malformed"
       THEN pc' = "finally" /\ proc' = [proc EXCEPT !.exc = "AttributeError"]
       ELSE /\ proc' = [proc EXCEPT !.all_regions = proc.spine_data.names]
            /\ pc' = IF proc.spine_data.names = <<>> THEN "finally" ELSE "combine"
    /\ file' = file /\ parser' = parser /\ reparsed' = reparsed /\ wellformed' = wellformed
    /\ images' = images /\ strict_crop' = strict_crop /\ frame' = frame
    /\ disk' = disk /\ opened' = opened

\* the inner try block: any exception of create_combined_atlas is caught
CombineAtlas ==
    /\ pc = "combine"
    /\ frame' = CreateCombinedAtlas(parser.pages, images, strict_crop, proc.all_regions)
    /\ file' = IF frame'.at = "returned"
               THEN SaveCombinedAtlasData(parser.pages, ImageName, frame'.combined_image,
                                          frame'.region_positions)
               ELSE file
    /\ pc' = "finally"
    /\ parser' = parser /\ reparsed' = reparsed /\ wellformed' = wellformed
    /\ images' = images /\ strict_crop' = strict_crop
    /\ disk' = disk /\ opened' = opened /\ proc' = proc

\* finally: splitter.close()
CloseImages ==
    /\ pc = "finally"
    /\ opened' = opened \ Reachable(images)
    /\ pc' = "ended"
    /\ file' = file /\ parser' = parser /\ reparsed' = reparsed /\ wellformed' = wellformed
    /\ images' = images /\ strict_crop' = strict_crop /\ frame' = frame
    /\ disk' = disk /\ proc' = proc

NextProcess == \/ LoadPageImage
               \/ CollectRegions
               \/ CombineAtlas
               \/ CloseImages

SpecProcess == InitProcess /\ [][NextProcess]_vars

(* ------------------------------------------------------------------ *)
(* Properties                                                          *)
(* ------------------------------------------------------------------ *)
Positions == frame.region_positions
Model == parser.pages

\* the source region of a name, as find_region resolves it
SourceRegion(name) == Model[FindRegion(Model, name)[1]].regions[FindRegion(Model, name)[2]]
IsFound(name) == FindRegion(Model, name)[1] # 0

\* the m-th requested name has been handled by the first pass
Handled(m) == m < frame.n \/ (m = frame.n /\ frame.at = "raised")

\* the padded rectangles of two placement records are disjoint
Disjoint(a, b) == \/ a.x + a.width + padding <= b.x
                  \/ b.x + b.width + padding <= a.x
                  \/ a.y + a.height + padding <= b.y
                  \/ b.y + b.height + padding <= a.y

\* C1: with items of positive width and height, no two records of the
\* placement list overlap, padding included.
C1_NoOverlap ==
    (\A m \in 1..Len(frame.regions) :
        frame.regions[m].image.width > 0 /\ frame.regions[m].image.height > 0)
    => \A a \in 1..Len(Positions), b \in 1..Len(Positions) :
           a # b => Disjoint(Positions[a], Positions[b])

\* C2: while the properties of a page are read, the first non-indented,
\* non-blank line without a 'key: value' shape starts a region, and that
\* region with the property lines that follow it is appended to the page.
C2_HeaderEndsAtRegion ==
    [][ ( /\ InLoop
          /\ parser.parsing_page_properties
          /\ Strip(parser.lines[parser.i]) # <<>>
          /\ ~StartsWith(parser.lines[parser.i], <<" ">>)
          /\ ~Contains(Strip(parser.lines[parser.i]), ":")
          /\ ~EndsWith(Strip(parser.lines[parser.i]), PNG)
          /\ ScanRegion(parser.lines, parser.i + 1,
                        AtlasRegion(Strip(parser.lines[parser.i])), FALSE).properties_found )
        => parser'.pages =
             [parser.pages EXCEPT ![parser.current_page].regions =
                 Append(@, ScanRegion(parser.lines, parser.i + 1,
                                      AtlasRegion(Strip(parser.lines[parser.i])),
                                      FALSE).region)] ]_vars

IndicesFrom(pages, low) ==
    \A a \in 1..Len(pages) : \A b \in 1..Len(pages[a].regions) :
        pages[a].regions[b].index >= low

\* C3 as stated: for any well-formed text, parsing what save_atlas wrote
\* gives the pages and regions of the first parse, field by field.
C3_RoundTrip ==
    (pc = "done" /\ wellformed) => reparsed = parser.pages

\* C3 (amended): for any well-formed text in which every region index is
\* at least -1, parsing what save_atlas wrote gives the pages and regions
\* of the first parse, field by field.
C3_RoundTripFromMinusOne ==
    (pc = "done" /\ wellformed /\ IndicesFrom(parser.pages, -1)) => reparsed = parser.pages

C3_Witness ==
    /\ pc = "done" /\ wellformed /\ IndicesFrom(parser.pages, -1)
    /\ \E a \in 1..Len(parser.pages) :
          /\ parser.pages[a].size # None
          /\ \E b \in 1..Len(parser.pages[a].regions) :
                 parser.pages[a].regions[b].rotate /\ parser.pages[a].regions[b].index >= 0
    /\ reparsed = parser.pages

Placement(pos) == [name |-> pos.name, x |-> pos.x, y |-> pos.y, width |-> pos.width,
                   height |-> pos.height, rotate |-> pos.rotate]
Placements(f) == {Placement(f.region_positions[q]) : q \in 1..Len(f.region_positions)}

\* C4: the placements do not depend on the order of the requested names:
\* every ordering of the same names gives each name the same x, y, width,
\* height and rotate.
C4_OrderIndependent ==
    frame.at = "returned"
    => \A names \in Reordered(frame.region_names) :
           Placements(CreateCombinedAtlas(Model, images, strict_crop, names)) = Placements(frame)

StoredSize(region) == IF region.rotate
                      THEN [width |-> region.size[2], height |-> region.size[1]]
                      ELSE [width |-> region.size[1], height |-> region.size[2]]

Bare(image) == [width |-> image.width, height |-> image.height]

InsideBitmap(region, image) ==
    /\ region.xy[1] >= 0 /\ region.xy[2] >= 0
    /\ region.size[1] >= 0 /\ region.size[2] >= 0
    /\ region.xy[1] + region.size[1] <= image.width
    /\ region.xy[2] + region.size[2] <= image.height

PageOf(name) == Model[FindRegion(Model, name)[1]]

\* C5 as stated: every extracted bitmap has the stored size of its region,
\* width and height swapped when the region is rotated.
C5_ExtractedSize ==
    \A m \in 1..Len(frame.regions) :
        frame.at = "extract"
        => Bare(frame.regions[m].image) = StoredSize(SourceRegion(frame.regions[m].data.name))

\* C5 (amended): every bitmap extracted for a region whose rectangle lies
\* inside its page bitmap (xy >= 0, size >= 0, xy + size within the bitmap)
\* has the stored size of the region, swapped when the region is rotated.
C5_ExtractedSizeInside ==
    \A m \in 1..Len(frame.regions) :
        ( /\ frame.at = "extract"
          /\ InsideBitmap(SourceRegion(frame.regions[m].data.name),
                          images[PageOf(frame.regions[m].data.name).name]) )
        => Bare(frame.regions[m].image) = StoredSize(SourceRegion(frame.regions[m].data.name))

C5_Witness ==
    /\ frame.at = "extract"
    /\ \E m \in 1..Len(frame.regions) :
          /\ InsideBitmap(SourceRegion(frame.regions[m].data.name),
                          images[PageOf(frame.regions[m].data.name).name])
          /\ SourceRegion(frame.regions[m].data.name).rotate
          /\ frame.regions[m].image.width # frame.regions[m].image.height
          /\ Bare(frame.regions[m].image) = StoredSize(SourceRegion(frame.regions[m].data.name))

CropFails(name) ==
    /\ IsFound(name)
    /\ CropRaises(images[PageOf(name).name],
                  CropBox(SourceRegion(name), images[PageOf(name).name]), strict_crop)

\* C6: when the crop of a requested region fails, extract_region returns
\* the 10x10 placeholder with the region's metadata instead of raising, and
\* create_combined_atlas is not aborted.
C6_PlaceholderOnFailure ==
    \A m \in 1..Len(frame.region_names) :
        (Handled(m) /\ CropFails(frame.region_names[m]))
        => /\ ExtractRegion(Model, images, strict_crop, frame.region_names[m]).exc = "none"
           /\ ExtractRegion(Model, images, strict_crop, frame.region_names[m]).image
                  = [width |-> 10, height |-> 10]
           /\ frame.at # "raised"

\* what save_combined_atlas_data wrote for a region
WrittenRegion(region) ==
    LET q == RegionMap(Positions, region.name, Len(Positions))
    IN IF q # 0
       THEN [name |-> region.name, xy |-> <<Positions[q].x, Positions[q].y>>,
             size |-> <<Positions[q].width, Positions[q].height>>,
             orig |-> Positions[q].orig, offset |-> Positions[q].offset,
             rotate |-> Positions[q].rotate, index |-> Positions[q].index]
       ELSE region

WrittenRegions == Concat([a \in 1..Len(Model) |->
                             [b \in 1..Len(Model[a].regions) |->
                                 WrittenRegion(Model[a].regions[b])]])

\* C7: parsing the text written by save_combined_atlas_data gives one page
\* that holds every written region, in the order written, with the written
\* xy, size, orig, offset, rotate and index.
C7_CombinedRoundTrip ==
    pc = "reread" => Len(reparsed) = 1 /\ reparsed[1].regions = WrittenRegions

\* C8: on the normal return the composite is max(x+width)+padding wide and
\* max(y+height)+padding high, the maxima taken over the placement list.
C8_TrimmedSize ==
    frame.at = "returned"
    => /\ \A q \in 1..Len(Positions) :
              /\ Positions[q].x + Positions[q].width + padding <= frame.combined_image.width
              /\ Positions[q].y + Positions[q].height + padding <= frame.combined_image.height
       /\ \E q \in 1..Len(Positions) :
              Positions[q].x + Positions[q].width + padding = frame.combined_image.width
       /\ \E q \in 1..Len(Positions) :
              Positions[q].y + Positions[q].height + padding = frame.combined_image.height

C8_Witness ==
    /\ frame.at = "returned"
    /\ Len(Positions) >= 2
    /\ frame.combined_image.width < frame.atlas_width
    /\ \E q \in 1..Len(Positions) :
          Positions[q].x + Positions[q].width + padding = frame.combined_image.width

Outcome(f) == [at |-> f.at, exc |-> f.exc, region_positions |-> f.region_positions,
               combined_image |-> f.combined_image]

Present(names) == SelectSeq(names, LAMBDA name : FindRegion(Model, name)[1] # 0)

\* C9: a requested name that is not in the model raises ValueError in
\* extract_region, the model is never changed, and (when some requested name
\* exists) create_combined_atlas ends as it does for the request list
\* without the missing names.
C9_MissingNameIsLocal ==
    /\ [](\A m \in 1..Len(frame.region_names) :
            (Handled(m) /\ ~IsFound(frame.region_names[m]))
            => /\ ExtractRegion(Model, images, strict_crop, frame.region_names[m]).exc
                     = "ValueError"
               /\ ~(frame.at = "raised" /\ frame.n = m))
    /\ []((frame.at \in {"returned", "raised"} /\ Present(frame.region_names) # <<>>)
            => Outcome(frame) = Outcome(CreateCombinedAtlas(Model, images, strict_crop,
                                                            Present(frame.region_names))))
    /\ [][parser'.pages = parser.pages]_vars

C9_Witness ==
    /\ frame.at = "returned"
    /\ Len(frame.region_names) = 2
    /\ ~IsFound(frame.region_names[1])
    /\ IsFound(frame.region_names[2])
    /\ Len(Positions) = 1

\* C10: every placement record carries the orig, offset and index of the
\* source region that find_region resolves for its name.
C10_TrimMetadataCarried ==
    \A q \in 1..Len(Positions) :
        /\ IsFound(Positions[q].name)
        /\ Positions[q].orig = SourceRegion(Positions[q].name).orig
        /\ Positions[q].offset = SourceRegion(Positions[q].name).offset
        /\ Positions[q].index = SourceRegion(Positions[q].name).index

C10_Witness ==
    /\ frame.at = "returned"
    /\ \E q \in 1..Len(Positions) :
          /\ Positions[q].orig # <<Positions[q].width, Positions[q].height>>
          /\ Positions[q].orig # <<Positions[q].height, Positions[q].width>>
          /\ Positions[q].offset # <<0, 0>>
          /\ Positions[q].index >= 0
          /\ Positions[q].orig = SourceRegion(Positions[q].name).orig

\* the region blocks of a written sidecar: a block starts at a line that is
\* not indented, after the five lines of the page header
HeaderLines == 5
RECURSIVE GroupBlocks(_, _)
GroupBlocks(lines, blocks) ==
    IF lines = <<>> THEN blocks
    ELSE IF blocks = <<>> \/ ~StartsWith(Head(lines), <<" ">>)
    THEN GroupBlocks(Tail(lines), Append(blocks, <<Head(lines)>>))
    ELSE GroupBlocks(Tail(lines), [blocks EXCEPT ![Len(blocks)] = Append(@, Head(lines))])
WrittenBlocks == LET lines == ReadLines(file)
                 IN GroupBlocks(SubSeq(lines, HeaderLines + 1, Len(lines)), <<>>)
\* the values written for a key in a block
Written(block, key) == {ValueOf(block[n]) : n \in {k \in 2..Len(block) : KeyOf(block[k]) = key}}
WrittenPair(block, key) == {PairVal(v) : v \in Written(block, key)}
WrittenBool(block, key) == {v = V_true : v \in Written(block, key)}

AllRegions == Concat([a \in 1..Len(Model) |-> Model[a].regions])
Placed(name) == {q \in 1..Len(Positions) : Positions[q].name = name}

\* C11: the written text holds one block per region of the model, in page
\* and region order; the block of a region whose name is in the placement
\* list carries the x, y, width, height and rotate of a placement of that
\* name, and the block of any other region carries the region's own rotate,
\* xy, size, orig and offset.
C11_CombinedWritesEveryRegion ==
    pc = "written"
    => LET blocks == WrittenBlocks
       IN /\ Len(blocks) = Len(AllRegions)
          /\ \A m \in 1..Len(AllRegions) :
               LET region == AllRegions[m]
                   block == blocks[m]
               IN /\ block[1] = region.name
                  /\ Placed(region.name) # {}
                     => \E q \in Placed(region.name) :
                           /\ WrittenPair(block, K_xy) = {<<Positions[q].x, Positions[q].y>>}
                           /\ WrittenPair(block, K_size)
                                  = {<<Positions[q].width, Positions[q].height>>}
                           /\ WrittenBool(block, K_rotate) = {Positions[q].rotate}
                  /\ Placed(region.name) = {}
                     => /\ WrittenBool(block, K_rotate) = {region.rotate}
                        /\ WrittenPair(block, K_xy) = {region.xy}
                        /\ WrittenPair(block, K_size) = {region.size}
                        /\ WrittenPair(block, K_orig) = {region.orig}
                        /\ WrittenPair(block, K_offset) = {region.offset}

C11_Witness ==
    /\ pc = "written"
    /\ \E m \in 1..Len(AllRegions) :
          /\ Placed(AllRegions[m].name) # {}
          /\ \A q \in Placed(AllRegions[m].name) :
                 AllRegions[m].xy # <<Positions[q].x, Positions[q].y>>
    /\ \E m \in 1..Len(AllRegions) :
          /\ Placed(AllRegions[m].name) = {}
          /\ AllRegions[m].xy # <<0, 0>>
          /\ AllRegions[m].rotate

\* the index values written to the sidecar on disk
WrittenIndices ==
    LET lines == ReadLines(file)
    IN {IntVal(ValueOf(lines[n])) :
           n \in {k \in 1..Len(lines) : /\ StartsWith(lines[k], <<" ">>)
                                        /\ Contains(lines[k], ":")
                                        /\ KeyOf(lines[k]) = K_index}}

\* C12: a sidecar written by save_atlas or by save_combined_atlas_data has
\* an index line only for a region whose index is at least 0, so no index
\* line carries a negative value.
C12_IndexOnlyWhenNonNegative ==
    pc \in {"saved", "written"} => \A v \in WrittenIndices : v >= 0

\* C13: when process_animation has ended, by return or by exception, no
\* bitmap opened by load_page_images is still open.
C13_BitmapsClosed ==
    pc = "ended" => opened = {}

\* the blocks of the text on disk, and whether a block of that name has a
\* property line of the given key
TextBlocks == GroupBlocks(ReadLines(file), <<>>)
HasKey(block, key) == \E k \in 2..Len(block) : Contains(block[k], ":") /\ KeyOf(block[k]) = key
NoLine(blocks, name, key) == \A m \in 1..Len(blocks) : blocks[m][1] = name => ~HasKey(blocks[m], key)

\* C14: a parsed region whose block has no orig line has orig equal to its
\* size; likewise a block without offset, rotate or index line gives offset
\* (0,0), rotate false and index -1.
C14_OrigDefaultsToSize ==
    pc = "parsed"
    => LET blocks == TextBlocks
       IN \A a \in 1..Len(parser.pages) : \A b \in 1..Len(parser.pages[a].regions) :
            LET region == parser.pages[a].regions[b]
            IN /\ NoLine(blocks, region.name, K_orig) => region.orig = region.size
               /\ NoLine(blocks, region.name, K_offset) => region.offset = <<0, 0>>
               /\ NoLine(blocks, region.name, K_rotate) => region.rotate = FALSE
               /\ NoLine(blocks, region.name, K_index) => region.index = -1

\* the batch of create_combined_atlas is the two items 10x10 and 20x5
IsExample ==
    /\ frame.at = "returned"
    /\ Len(frame.regions) = 2
    /\ {<<frame.regions[q].image.width, frame.regions[q].image.height>> : q \in 1..2}
          = {<<10, 10>>, <<20, 5>>}
Area(img) == img.width * img.height

\* C15 as stated: for the items 10x10 and 20x5 the area of the trimmed
\* composite is at most 1.3 times the summed input area, 200.
C15_ExampleAreaWithin130Percent ==
    IsExample => 10 * Area(frame.combined_image) <= 13 * (10 * 10 + 20 * 5)

\* C15 (amended): for the items 10x10 and 20x5 the trimmed composite is 22
\* wide and 19 high, with 20x5 at (0,0) and 10x10 at (0,7): its area, 418,
\* is at most 2.09 times the summed input area, 200.
C15_ExampleArea ==
    IsExample
    => /\ frame.combined_image = [width |-> 22, height |-> 19]
       /\ 100 * Area(frame.combined_image) <= 209 * (10 * 10 + 20 * 5)
       /\ {<<Positions[q].x, Positions[q].y, Positions[q].width, Positions[q].height>> :
              q \in 1..Len(Positions)} = {<<0, 0, 20, 5>>, <<0, 7, 10, 10>>}

C15_Witness ==
    /\ IsExample
    /\ Area(frame.combined_image) = 418
    /\ frame.region_names[1] = RegionNames[1]
    /\ SourceRegion(RegionNames[2]).rotate

\* the node that a step of the second pass marks as used, 0 if none
NodeTaken == IF \E id \in 1..Len(frame.nodes) : ~frame.nodes[id].used /\ frame'.nodes[id].used
             THEN CHOOSE id \in 1..Len(frame.nodes) :
                      ~frame.nodes[id].used /\ frame'.nodes[id].used
             ELSE 0
FitsDirect(item, node) == item.image.width <= node.width /\ item.image.height <= node.height
FitsSwapped(item, node) == item.image.height <= node.width /\ item.image.width <= node.height

\* C16: when the second pass places an item in a free node that the item
\* fits only with width and height swapped, the stored record has rotate
\* true and the swapped width and height, and the node is split with them.
C16_RotatedWhenOnlySwappedFits ==
    [][(frame.at = "pack" /\ frame'.at = "pack" /\ NodeTaken # 0)
       => LET item == frame.regions[frame.k]
              node == frame.nodes[NodeTaken]
              pos == frame'.region_positions[Len(frame'.region_positions)]
          IN (~FitsDirect(item, node) /\ FitsSwapped(item, node))
             => /\ pos.rotate
                /\ pos.width = item.image.height
                /\ pos.height = item.image.width
                /\ frame'.nodes = SplitNode(frame.nodes, NodeTaken,
                                            item.image.height, item.image.width)]_vars

\* a property line that sets a field of its region: a known key with a
\* value of the expected form
SetsField(line) ==
    /\ StartsWith(line, <<" ", " ">>)
    /\ Contains(Strip(line), ":")
    /\ \/ KeyOf(line) = K_rotate
       \/ KeyOf(line) \in {K_xy, K_size, K_orig, K_offset} /\ IsPair(ValueOf(line))
       \/ KeyOf(line) = K_index /\ IsInt(ValueOf(line))
SetsAnyField(block) == \E k \in 2..Len(block) : SetsField(block[k])

\* C17: every region of a parsed page comes from a block in which some
\* property line set a field; a block with only unknown keys or only
\* malformed values leaves no region behind.
C17_RegionWithoutFieldsDropped ==
    pc = "parsed"
    => LET blocks == TextBlocks
       IN \A a \in 1..Len(parser.pages) : \A b \in 1..Len(parser.pages[a].regions) :
            \E m \in 1..Len(blocks) :
                /\ blocks[m][1] = parser.pages[a].regions[b].name
                /\ SetsAnyField(blocks[m])

\* C18: for every requested region that extract_region has handled, the
\* rectangle handed to crop lies inside the page bitmap, with its origin on
\* a pixel and a width and height of at least 0, and the extraction from a
\* readable bitmap has not failed.
C18_CropBoxValid ==
    \A m \in 1..Len(frame.region_names) :
        (Handled(m) /\ IsFound(frame.region_names[m]))
        => LET source_image == images[PageOf(frame.region_names[m]).name]
               box == CropBox(SourceRegion(frame.region_names[m]), source_image)
           IN /\ 0 <= box[1] /\ box[1] <= source_image.width - 1
              /\ 0 <= box[2] /\ box[2] <= source_image.height - 1
              /\ box[3] - box[1] >= 0 /\ box[4] - box[2] >= 0
              /\ box[3] <= source_image.width /\ box[4] <= source_image.height
              /\ source_image.readable
                 => ExtractRegion(Model, images, strict_crop, frame.region_names[m]).exc
                        = "none"

\* parse_file is about to hand the line parser.i to _parse_region_property
AtRegionLine ==
    /\ InLoop
    /\ ~IsEmptyLine(parser) /\ ~IsPageLine(parser) /\ ~IsPagePropertyLine(parser)
    /\ IsRegionLine(parser)

\* the lines of the property block under the name line i: the blank and
\* indented lines that follow it without interruption
BlockLines(lines, i) ==
    {k \in (i + 1)..Len(lines) :
        \A j \in (i + 1)..k : Strip(lines[j]) = <<>> \/ StartsWith(lines[j], <<" ", " ">>)}

\* a property line of a known key whose value cannot be converted
Malformed(line) ==
    /\ StartsWith(line, <<" ", " ">>)
    /\ Contains(Strip(line), ":")
    /\ KeyOf(line) \in {K_xy, K_size, K_orig, K_offset, K_index}
    /\ ~SetsField(line)

\* the last line of the block that sets the field of a key, 0 if none
LastSetting(lines, i, key) ==
    LET S == {k \in BlockLines(lines, i) : SetsField(lines[k]) /\ KeyOf(lines[k]) = key}
    IN IF S = {} THEN 0 ELSE CHOOSE k \in S : \A j \in S : j <= k

PairOr(lines, at, default) == IF at = 0 THEN default ELSE PairVal(ValueOf(lines[at]))

\* the region that the well-formed lines of the block describe
ExpectedRegion(lines, i) ==
    [name |-> Strip(lines[i]),
     xy |-> PairOr(lines, LastSetting(lines, i, K_xy), <<0, 0>>),
     size |-> PairOr(lines, LastSetting(lines, i, K_size), <<0, 0>>),
     orig |-> PairOr(lines, LastSetting(lines, i, K_orig), <<0, 0>>),
     offset |-> PairOr(lines, LastSetting(lines, i, K_offset), <<0, 0>>),
     rotate |-> /\ LastSetting(lines, i, K_rotate) # 0
                /\ Lower(ValueOf(lines[LastSetting(lines, i, K_rotate)])) = V_true,
     index |-> IF LastSetting(lines, i, K_index) = 0 THEN -1
               ELSE IntVal(ValueOf(lines[LastSetting(lines, i, K_index)]))]

HasMalformed(lines, i) == \E k \in BlockLines(lines, i) : Malformed(lines[k])

\* C19: when the block of a region holds a line with a malformed value, the
\* region is still appended to the current page, and each of its fields has
\* the value of the last well-formed line of its key in the block, before or
\* after the malformed line, or its default when there is none.
C19_MalformedValueIsLocal ==
    [][(AtRegionLine /\ HasMalformed(parser.lines, parser.i))
       => parser'.pages =
              [parser.pages EXCEPT ![parser.current_page].regions =
                  Append(@, ExpectedRegion(parser.lines, parser.i))]]_vars

\* a region parsed from a block with a malformed line before and after a
\* well-formed one
C19_Witness ==
    /\ pc = "parse"
    /\ \E i \in 1..(parser.i - 1) :
          /\ ~StartsWith(parser.lines[i], <<" ">>)
          /\ \E j, k, l \in BlockLines(parser.lines, i) :
                /\ j < k /\ k < l /\ l < parser.i
                /\ Malformed(parser.lines[j])
                /\ SetsField(parser.lines[k])
                /\ Malformed(parser.lines[l])
          /\ parser.current_page # 0
          /\ \E b \in 1..Len(parser.pages[parser.current_page].regions) :
                /\ parser.pages[parser.current_page].regions[b]
                       = ExpectedRegion(parser.lines, i)
                /\ ExpectedRegion(parser.lines, i).size # <<0, 0>>

\* how often a name occurs in a sequence of names
Count(names, name) == Cardinality({q \in 1..Len(names) : names[q] = name})
NamesOf(items) == [q \in 1..Len(items) |-> items[q].data.name]
PlacedNames == [q \in 1..Len(Positions) |-> Positions[q].name]

\* no free node takes the item, in either orientation
NoFreeNode(item) ==
    \A id \in 1..Len(frame.nodes) :
        frame.nodes[id].used
        \/ (~FitsDirect(item, frame.nodes[id]) /\ ~FitsSwapped(item, frame.nodes[id]))

\* C20: in the second pass every item tried so far is either in the
\* placement list or among the items reported as not fitting, once; an item
\* for which no free node exists leaves the node tree and the placements
\* unchanged and is reported, the pass goes on to the next item, and the
\* call returns only after every item was tried.
C20_EveryItemHandledOnce ==
    /\ [](frame.at \in {"pack", "returned"}
          => /\ Len(Positions) + Len(frame.unplaced) = frame.k - 1
             /\ \A name \in {frame.regions[q].data.name : q \in 1..Len(frame.regions)} :
                   Count(PlacedNames, name) + Count(frame.unplaced, name)
                       = Count(NamesOf(SubSeq(frame.regions, 1, frame.k - 1)), name))
    /\ [](frame.at = "returned" => frame.k = Len(frame.regions) + 1)
    /\ [][(frame.at = "pack" /\ frame.k <= Len(frame.regions)
             /\ NoFreeNode(frame.regions[frame.k]))
          => /\ frame'.nodes = frame.nodes
             /\ frame'.region_positions = frame.region_positions
             /\ frame'.unplaced = Append(frame.unplaced, frame.regions[frame.k].data.name)
             /\ frame'.k = frame.k + 1
             /\ frame'.at = "pack"]_vars

\* an item did not fit and the item after it was placed
C20_Witness ==
    /\ frame.at = "returned"
    /\ Len(frame.regions) = 3
    /\ frame.unplaced = <<frame.regions[2].data.name>>
    /\ Len(Positions) = 2
    /\ Positions[2].name = frame.regions[3].data.name

PlacedArea(pos) == pos.width * pos.height
PlacedMaxDim(pos) == Max(pos.width, pos.height)

BlockEnd(lines, i) == i + Cardinality(BlockLines(lines, i)) + 1

\* C22: every iteration of the main loop of parse_file moves the line index
\* forward by at least one and never past the end, the index never moves
\* backwards, the iteration that scans a region's block leaves the index on
\* the line that ended the block, and the loop ends.
C22_ParseTerminates ==
    /\ [][InLoop => /\ parser'.i > parser.i
                    /\ parser'.i <= Len(parser.lines) + 1
                    /\ parser'.lines = parser.lines]_vars
    /\ [][parser'.i >= parser.i]_vars
    /\ [][AtRegionLine => parser'.i = BlockEnd(parser.lines, parser.i)]_vars
    /\ <>(pc = "parsed")

\* the main loop stands on the line that ended the block of the region it
\* has just appended
C22_Witness ==
    /\ InLoop
    /\ parser.current_page # 0
    /\ \E i \in 1..(parser.i - 2) :
          /\ ~StartsWith(parser.lines[i], <<" ">>)
          /\ ~Contains(parser.lines[i], ":")
          /\ parser.i = BlockEnd(parser.lines, i)
          /\ Len(parser.pages[parser.current_page].regions) > 0
          /\ parser.pages[parser.current_page].regions[
                 Len(parser.pages[parser.current_page].regions)].name = parser.lines[i]
    /\ Strip(parser.lines[parser.i]) # <<>>
    /\ ~StartsWith(parser.lines[parser.i], <<" ">>)

\* C23: every placement record lies inside the canvas sized before the
\* packing, and the trimmed composite is at most that canvas plus the
\* padding in each direction.
C23_PlacedInsideCanvas ==
    /\ \A q \in 1..Len(Positions) :
          /\ Positions[q].x >= 0 /\ Positions[q].y >= 0
          /\ Positions[q].x + Positions[q].width <= frame.atlas_width
          /\ Positions[q].y + Positions[q].height <= frame.atlas_height
    /\ frame.at = "returned"
       => /\ frame.combined_image.width <= frame.atlas_width + padding
          /\ frame.combined_image.height <= frame.atlas_height + padding

====
